---- MODULE Spec2Model ----
(***************************************************************************)
(* Model of TermuxInteractiveSession (src/patches/shell_termux.py): the    *)
(* pty session lifecycle (connect / send_command / read_output / close),   *)
(* run by asyncio tasks that interleave only at suspension points, against *)
(* an environment made of the pty devices and the spawned shells; and the  *)
(* pure output sanitizer _clean_output, exercised by its own                *)
(* specification SanSpec.                                                  *)
(***************************************************************************)
EXTENDS Integers, Sequences, FiniteSets, TLC

(***************************************************************************)
(* Bounds of the model.                                                    *)
(***************************************************************************)
\* pty pairs the host hands out before openpty() fails (out of devices)
MaxPty == 3
\* commands dispatched (successful writes of a command line)
MaxCmds == 2
\* poll slices that fit in one read_output timeout
Slices == 2
\* length of the raw texts given to the sanitizer
MaxLen == 4

(***************************************************************************)
(* Characters.  A text is a sequence of character codes.                   *)
(***************************************************************************)
BEL == 7
TAB == 9
LF == 10
CR == 13
ESC == 27
\* the characters the sanitizer is exercised on: BEL TAB LF CR ESC, space,
\* "0", "A", "[", "m"
Alphabet == {BEL, TAB, LF, CR, ESC, 32, 48, 65, 91, 109}

\* str.isprintable() on the ASCII range
IsPrintable(c) == c \in 32..126

\* the character classes of ANSI_ESCAPE
\* [@-Z\\-_] : "@".."Z" and "\".."_"
IsFe(c) == c \in 64..90 \/ c \in 92..95
\* [0-?]
IsParam(c) == c \in 48..63
\* [ -/]
IsInter(c) == c \in 32..47
\* [@-~]
IsFinal(c) == c \in 64..126

\* first index >= i of text whose character is not in the class (Len+1 if none)
RECURSIVE SkipParams(_, _)
SkipParams(text, i) ==
    IF i <= Len(text) /\ IsParam(text[i]) THEN SkipParams(text, i + 1) ELSE i

RECURSIVE SkipInters(_, _)
SkipInters(text, i) ==
    IF i <= Len(text) /\ IsInter(text[i]) THEN SkipInters(text, i + 1) ELSE i

\* ANSI_ESCAPE.match at position i: the length of the match, 0 if there is none.
\* The three classes of the CSI branch are pairwise disjoint, so the greedy
\* stars never give characters back.
AnsiMatchLen(text, i) ==
    IF i + 1 > Len(text) \/ text[i] # ESC THEN 0
    ELSE IF IsFe(text[i + 1]) THEN 2
    ELSE IF text[i + 1] # 91 THEN 0
    ELSE LET j == SkipInters(text, SkipParams(text, i + 2))
         IN  IF j <= Len(text) /\ IsFinal(text[j]) THEN j - i + 1 ELSE 0

\* ANSI_ESCAPE.sub('', text): leftmost matches removed, none sharing a character
RECURSIVE AnsiSubFrom(_, _)
AnsiSubFrom(text, i) ==
    IF i > Len(text) THEN << >>
    ELSE LET n == AnsiMatchLen(text, i)
         IN  IF n > 0 THEN AnsiSubFrom(text, i + n)
             ELSE << text[i] >> \o AnsiSubFrom(text, i + 1)

AnsiSub(text) == AnsiSubFrom(text, 1)

\* text.replace('\r\n', '\n')
RECURSIVE ReplaceCRLF(_)
ReplaceCRLF(text) ==
    IF text = << >> THEN << >>
    ELSE IF Len(text) >= 2 /\ text[1] = CR /\ text[2] = LF
         THEN << LF >> \o ReplaceCRLF(SubSeq(text, 3, Len(text)))
         ELSE << text[1] >> \o ReplaceCRLF(Tail(text))

\* a variant that turns a bare carriage return into a linefeed
BareCRReplacement_Linefeed == << LF >>

\* what bare carriage returns are replaced with: .replace('\r', '')
BareCRReplacement == << >>

\* text.replace('\r', <replacement>)
RECURSIVE ReplaceCR(_)
ReplaceCR(text) ==
    IF text = << >> THEN << >>
    ELSE (IF text[1] = CR THEN BareCRReplacement ELSE << text[1] >>)
         \o ReplaceCR(Tail(text))

\* the loop keeping printable characters, newline and tab
KeepPrintable(text) ==
    SelectSeq(text, LAMBDA c : IsPrintable(c) \/ c \in {LF, TAB})

\* a variant of the sanitizer without the loop that drops what is not printable
clean_output_Unfiltered(text) == ReplaceCR(ReplaceCRLF(AnsiSub(text)))

\* _clean_output(text)
clean_output(text) == KeepPrintable(ReplaceCR(ReplaceCRLF(AnsiSub(text))))

\* counting helpers for the statements about the sanitizer
RECURSIVE Count(_, _)
Count(text, c) ==
    IF text = << >> THEN 0
    ELSE (IF text[1] = c THEN 1 ELSE 0) + Count(Tail(text), c)

\* carriage returns of text that are not followed by a linefeed
BareCRs(text) ==
    Cardinality({ i \in 1..Len(text) :
        text[i] = CR /\ (i = Len(text) \/ text[i + 1] # LF) })

\* carriage-return + linefeed pairs of text
CRLFPairs(text) ==
    Cardinality({ i \in 1..Len(text) :
        text[i] = CR /\ i < Len(text) /\ text[i + 1] = LF })

\* all texts over Alphabet of length at most n
Texts(n) == UNION { [1..k -> Alphabet] : k \in 0..n }

(***************************************************************************)
(* The session and its environment.                                        *)
(***************************************************************************)
\* asyncio tasks that call the session's public operations
Tasks == {1, 2}

\* the caller of sequential use
SeqTasks == {1}

\* None, for self.process and self.master_fd
None == 0

\* the startup text of an interactive shell: its prompt "$"
Banner == << 36 >>

\* the raw pty output of the k-th dispatched command: the k-th letter and the
\* line ending the terminal produces ("a\r\n", "b\r\n", ...)
CmdOutput(k) == << 96 + k, CR, LF >>

\* the text a command prints, as the sanitizer leaves it
CmdLetter(k) == 96 + k

VARIABLES
    connected,    \* self._connected
    process,      \* self.process: the pty id of the child, or None
    master_fd,    \* self.master_fd: a pty id, or None
    full_output,  \* self.full_output
    lock,         \* self._lock: the task holding it, or 0
    waiters,      \* self._lock's queue of tasks waiting to acquire
    nextPty,      \* the next pty pair openpty() hands out
    openMasters,  \* ptys whose master descriptor is open in this process
    openSlaves,   \* ptys whose slave descriptor is open in this process
    live,         \* ptys whose shell is running (a shell is named by its pty)
    bannerDue,    \* running shells that have not printed their startup text
    inq,          \* per pty: command numbers written to the master, not yet run
    outq,         \* per pty: raw text written by the shell, not yet read
    task,         \* per task: call stack, locals and the last call's outcome
    running,      \* the task the event loop is running, 0 between tasks
    sends,        \* history: commands dispatched so far
    lastConnect,  \* history: how the latest connect attempt ended
    raw,          \* sanitizer: the input text
    cleaned,      \* sanitizer: _clean_output(raw)
    sanDone,      \* sanitizer: _clean_output has run
    cut,          \* sanitizer: where raw was split into two chunks, or 0
    chunked       \* sanitizer: the text accumulated from the two chunks

sessVars == << connected, process, master_fd, full_output, lock, waiters,
               nextPty, openMasters, openSlaves, live, bannerDue, inq, outq,
               task, running, sends, lastConnect >>
sanVars == << raw, cleaned, sanDone, cut, chunked >>
vars == << sessVars, sanVars >>

\* the pty pairs of the host
Ptys == 1..MaxPty

\* a task that is not inside any call.  Besides the stack and the locals of
\* read_output (partial, left) the record keeps, for the statements below,
\* the last call's operation and outcome, what read_output returned, its
\* reset argument and the commands dispatched when it was called, the
\* writes and reconnects of send_command, the steps close went through, and
\* whether the session was connected when the call was made, the process
\* handle and the next pty pair at that time, the full buffer read_output
\* started from, the polls of read_output that found nothing, the raw
\* text it read, and whether a close of another task has returned while the
\* call was in progress
IdleTask ==
    [ stack |-> << >>, op |-> "none", result |-> "none",
      partial |-> << >>, left |-> 0, reset |-> FALSE, rsends |-> 0,
      retfull |-> << >>, retpartial |-> << >>,
      nwrites |-> 0, nreconn |-> 0, steps |-> << >>, conn0 |-> FALSE,
      proc0 |-> 0, pty0 |-> 0, full0 |-> << >>, idle |-> 0,
      rawread |-> << >>, closed |-> FALSE ]

\* __init__
SessionInit ==
    /\ connected = FALSE
    /\ process = None
    /\ master_fd = None
    /\ full_output = << >>
    /\ lock = 0
    /\ waiters = << >>
    /\ nextPty = 1
    /\ openMasters = {}
    /\ openSlaves = {}
    /\ live = {}
    /\ bannerDue = {}
    /\ inq = [p \in Ptys |-> << >>]
    /\ outq = [p \in Ptys |-> << >>]
    /\ task = [t \in Tasks |-> IdleTask]
    /\ running = 0
    /\ sends = 0
    /\ lastConnect = "none"

Init ==
    /\ SessionInit
    /\ raw = << >>
    /\ cleaned = << >>
    /\ sanDone = FALSE
    /\ cut = 0
    /\ chunked = << >>

\* the frame a task is executing
Top(t) == IF task[t].stack = << >> THEN "idle" ELSE Head(task[t].stack)

\* the task record with its top frame replaced
Goto(tk, label) == [tk EXCEPT !.stack = << label >> \o Tail(tk.stack)]

\* the task record after its top frame returned normally
Ret(tk) ==
    [tk EXCEPT !.stack = Tail(tk.stack),
               !.result = IF Tail(tk.stack) = << >> THEN "ok" ELSE tk.result]

\* the event loop after the top frame of t returned: the caller's frame goes
\* on without suspending; a finished call leaves the loop free
AfterRet(t) == IF Tail(task[t].stack) = << >> THEN 0 ELSE t

\* the task record after an exception no frame handles
Raised(tk) ==
    [tk EXCEPT !.stack = << >>, !.result = "raised",
               !.partial = << >>, !.left = 0]

\* a write to the master of pty fd is accepted: the descriptor is open and
\* the slave side is still held by a shell or by this process
WriteOK(fd) == fd \in openMasters /\ (fd \in live \/ fd \in openSlaves)

\* asyncio.Lock.acquire takes the lock at once only when it is free and
\* nobody is queued for it
LockFree == lock = 0 /\ waiters = << >>

\* a call that starts: its frames, with the outcome of the last call cleared
Call(t, op, frames) ==
    [IdleTask EXCEPT !.stack = frames, !.op = op, !.conn0 = connected,
                     !.proc0 = process, !.pty0 = nextPty]

\* a caller may start a call: it is idle and the event loop runs no task
MayCall(t) == Top(t) = "idle" /\ running = 0

(***************************************************************************)
(* connect()                                                               *)
(***************************************************************************)
\* await session.connect() by a caller
CallConnect(t) ==
    /\ MayCall(t)
    /\ task' = [task EXCEPT ![t] = Call(t, "connect", << "connect_enter" >>)]
    /\ running' = t
    /\ UNCHANGED << connected, process, master_fd, full_output, lock, waiters,
                    nextPty, openMasters, openSlaves, live, bannerDue, inq,
                    outq, sends, lastConnect >>
    /\ UNCHANGED sanVars

\* async with self._lock, in connect: enter at once or queue and suspend
ConnectEnter(t) ==
    /\ Top(t) = "connect_enter" /\ running = t
    /\ IF LockFree
       THEN /\ lock' = t
            /\ task' = [task EXCEPT ![t] = Goto(@, "connect_body")]
            /\ UNCHANGED << waiters, running >>
       ELSE /\ waiters' = Append(waiters, t)
            /\ task' = [task EXCEPT ![t] = Goto(@, "connect_wait")]
            /\ running' = 0
            /\ UNCHANGED lock
    /\ UNCHANGED << connected, process, master_fd, full_output, nextPty,
                    openMasters, openSlaves, live, bannerDue, inq, outq,
                    sends, lastConnect >>
    /\ UNCHANGED sanVars

\* the lock is handed to the first queued task, in connect or in close
LockGranted(t) ==
    /\ Top(t) \in {"connect_wait", "close_wait"} /\ running = 0
    /\ lock = 0 /\ waiters # << >> /\ Head(waiters) = t
    /\ lock' = t
    /\ waiters' = Tail(waiters)
    /\ task' = [task EXCEPT ![t] =
           Goto(@, IF Top(t) = "connect_wait" THEN "connect_body"
                                                ELSE "close_body")]
    /\ running' = t
    /\ UNCHANGED << connected, process, master_fd, full_output, nextPty,
                    openMasters, openSlaves, live, bannerDue, inq, outq,
                    sends, lastConnect >>
    /\ UNCHANGED sanVars

\* if self._connected: return
ConnectNoop(t) ==
    /\ Top(t) = "connect_body" /\ running = t
    /\ connected
    /\ lock' = 0
    /\ task' = [task EXCEPT ![t] = Ret(@)]
    /\ running' = AfterRet(t)
    /\ UNCHANGED << connected, process, master_fd, full_output, waiters,
                    nextPty, openMasters, openSlaves, live, bannerDue, inq,
                    outq, sends, lastConnect >>
    /\ UNCHANGED sanVars

\* a variant of the guard of the connect procedure without the early return
ConnectNeeded_NoCheck == TRUE

\* the connect procedure runs only past the early return
ConnectNeeded == ~connected

\* openpty, non-blocking master, makedirs, Popen, close of the slave,
\* self._connected = True, then the suspension in asyncio.sleep(0.3)
ConnectSpawn(t) ==
    /\ Top(t) = "connect_body" /\ running = t
    /\ ConnectNeeded
    /\ nextPty <= MaxPty
    /\ master_fd' = nextPty
    /\ openMasters' = openMasters \cup {nextPty}
    /\ process' = nextPty
    /\ live' = live \cup {nextPty}
    /\ bannerDue' = bannerDue \cup {nextPty}
    /\ nextPty' = nextPty + 1
    /\ connected' = TRUE
    /\ lastConnect' = IF lastConnect \in {"failed"} THEN "ok_after_fail"
                                                   ELSE "ok"
    /\ task' = [task EXCEPT ![t] = Goto(@, "connect_sleep")]
    /\ running' = 0
    /\ UNCHANGED << full_output, lock, waiters, openSlaves, inq, outq,
                    sends >>
    /\ UNCHANGED sanVars

\* a variant of the failure of connect that has marked the session connected
\* before the step that failed
ConnectedAfterFailure_SetEarly == TRUE

\* self._connected after a connect that failed: the assignment of line 97 was
\* not reached, and the early return was passed
ConnectedAfterFailure == FALSE

\* a variant of the exit by exception that keeps the lock
LockAfterRaise_Held(holder) == holder

\* async with releases the lock when an exception leaves its block
LockAfterRaise(holder) == 0

\* the exception of a step of the connect procedure leaves the lock's block:
\* pty.openpty() fails and nothing was assigned; or os.makedirs / Popen (or
\* the fcntl calls) fail after self.master_fd was assigned, both descriptors
\* of the new pair staying open
ConnectFail(t, why) ==
    /\ Top(t) = "connect_body" /\ running = t
    /\ ConnectNeeded
    /\ IF why = "openpty"
       THEN UNCHANGED << master_fd, openMasters, openSlaves, nextPty >>
       ELSE /\ nextPty <= MaxPty
            /\ master_fd' = nextPty
            /\ openMasters' = openMasters \cup {nextPty}
            /\ openSlaves' = openSlaves \cup {nextPty}
            /\ nextPty' = nextPty + 1
    /\ connected' = ConnectedAfterFailure
    /\ lastConnect' = "failed"
    /\ lock' = LockAfterRaise(lock)
    /\ task' = [task EXCEPT ![t] = Raised(@)]
    /\ running' = 0
    /\ UNCHANGED << process, full_output, waiters, live, bannerDue, inq, outq,
                    sends >>
    /\ UNCHANGED sanVars

\* after the sleep: await self.read_output(timeout=1.0, reset_full_output=True)
\* starts (lines 176-180 of read_output)
ConnectDrain(t) ==
    /\ Top(t) = "connect_sleep" /\ running = 0
    /\ full_output' = << >>
    /\ task' = [task EXCEPT ![t] =
           [@ EXCEPT !.stack = << "read_loop", "connect_finish" >>
                                 \o Tail(task[t].stack),
                     !.partial = << >>, !.left = Slices,
                     !.full0 = << >>, !.idle = 0, !.rawread = << >>]]
    /\ running' = t
    /\ UNCHANGED << connected, process, master_fd, lock, waiters, nextPty,
                    openMasters, openSlaves, live, bannerDue, inq, outq,
                    sends, lastConnect >>
    /\ UNCHANGED sanVars

\* a variant of the end of connect that keeps what the drain accumulated
AfterDrain_Keep(text) == text

\* self.full_output = "" after the drain
AfterDrain(text) == << >>

\* the drain returned: reset the buffer, leave the lock's block, return
ConnectFinish(t) ==
    /\ Top(t) = "connect_finish" /\ running = t
    /\ full_output' = AfterDrain(full_output)
    /\ lock' = 0
    /\ task' = [task EXCEPT ![t] = Ret(@)]
    /\ running' = AfterRet(t)
    /\ UNCHANGED << connected, process, master_fd, waiters, nextPty,
                    openMasters, openSlaves, live, bannerDue, inq, outq,
                    sends, lastConnect >>
    /\ UNCHANGED sanVars

(***************************************************************************)
(* read_output(timeout, reset_full_output)                                 *)
(***************************************************************************)
\* await session.read_output(reset_full_output=reset) by a caller: the
\* optional reset, the empty partial text and the deadline
CallRead(t, reset) ==
    /\ MayCall(t)
    /\ full_output' = IF reset THEN << >> ELSE full_output
    /\ task' = [task EXCEPT ![t] =
           [Call(t, "read", << "read_loop" >>) EXCEPT
               !.left = Slices, !.reset = reset, !.rsends = sends,
               !.full0 = IF reset THEN << >> ELSE full_output]]
    /\ running' = t
    /\ UNCHANGED << connected, process, master_fd, lock, waiters, nextPty,
                    openMasters, openSlaves, live, bannerDue, inq, outq,
                    sends, lastConnect >>
    /\ UNCHANGED sanVars

\* select reports the master readable with data pending
Readable == master_fd \in openMasters /\ outq[master_fd] # << >>

\* select or os.read fails other than with EAGAIN: self.master_fd is None
\* or not an open descriptor, or the slave side of the pty is closed
\* everywhere and nothing is left to read (EIO)
ReadError ==
    IF master_fd \notin openMasters THEN TRUE
    ELSE /\ outq[master_fd] = << >>
         /\ master_fd \notin live
         /\ master_fd \notin openSlaves

\* a variant of the accumulation that keeps only the latest text
Accumulate_Overwrite(buffer, text) == text

\* buffer += text
Accumulate(buffer, text) == buffer \o text

\* one turn of the loop that reads: os.read takes what is pending, the text
\* is decoded, cleaned and appended to both buffers; the loop goes on
\* without suspending
ReadData(t) ==
    /\ Top(t) = "read_loop" /\ running \in {0, t}
    /\ task[t].left > 0
    /\ Readable
    /\ LET text == clean_output(outq[master_fd])
       IN  /\ full_output' = Accumulate(full_output, text)
           /\ task' = [task EXCEPT ![t].partial = Accumulate(@, text),
                                   ![t].rawread = @ \o outq[master_fd]]
    /\ outq' = [outq EXCEPT ![master_fd] = << >>]
    /\ running' = t
    /\ UNCHANGED << connected, process, master_fd, lock, waiters, nextPty,
                    openMasters, openSlaves, live, bannerDue, inq, sends, lastConnect >>
    /\ UNCHANGED sanVars

\* a variant of the turn with nothing to read that ends the loop
LeftAfterIdle_Stop(n) == 0

\* a turn with nothing to read uses up one poll slice and the loop goes on
LeftAfterIdle(n) == n - 1

\* one turn of the loop with nothing to read (select times out, or os.read
\* reports EAGAIN): asyncio.sleep(0.05), one poll slice of the timeout gone
ReadIdle(t) ==
    /\ Top(t) = "read_loop" /\ running \in {0, t}
    /\ task[t].left > 0
    /\ ~Readable /\ ~ReadError
    /\ task' = [task EXCEPT ![t].left = LeftAfterIdle(@),
                            ![t].idle = @ + 1]
    /\ running' = 0
    /\ UNCHANGED << connected, process, master_fd, full_output, lock, waiters,
                    nextPty, openMasters, openSlaves, live, bannerDue, inq,
                    outq, sends, lastConnect >>
    /\ UNCHANGED sanVars

\* the loop ends, at the deadline or by break, and read_output returns
\* (self.full_output, partial_output)
ReadReturn(t) ==
    /\ Top(t) = "read_loop" /\ running \in {0, t}
    /\ (task[t].left = 0 \/ ReadError)
    /\ task' = [task EXCEPT ![t] =
           [Ret(@) EXCEPT
               !.retfull = IF Tail(task[t].stack) = << >>
                           THEN full_output ELSE << >>,
               !.retpartial = IF Tail(task[t].stack) = << >>
                              THEN task[t].partial ELSE << >>,
               !.full0 = IF Tail(task[t].stack) = << >>
                         THEN task[t].full0 ELSE << >>,
               !.idle = IF Tail(task[t].stack) = << >>
                        THEN task[t].idle ELSE 0,
               !.rawread = IF Tail(task[t].stack) = << >>
                           THEN task[t].rawread ELSE << >>,
               !.partial = << >>, !.left = 0]]
    /\ running' = AfterRet(t)
    /\ UNCHANGED << connected, process, master_fd, full_output, lock, waiters,
                    nextPty, openMasters, openSlaves, live, bannerDue, inq,
                    outq, sends, lastConnect >>
    /\ UNCHANGED sanVars

(***************************************************************************)
(* send_command(command)                                                   *)
(***************************************************************************)
\* tasks inside send_command
Sending == { u \in Tasks : task[u].stack # << >> /\ task[u].op = "send" }

\* a variant of the start of send_command without the lazy connect
SendFrames_NoConnect == << "send_write" >>

\* if not self._connected: await self.connect(), then the write
SendFrames ==
    IF connected THEN << "send_write" >>
    ELSE << "connect_enter", "send_write" >>

\* await session.send_command(...) by a caller: connect first if the session
\* is not connected
CallSend(t) ==
    /\ MayCall(t)
    /\ sends + Cardinality(Sending) < MaxCmds
    /\ task' = [task EXCEPT ![t] =
           Call(t, "send", SendFrames)]
    /\ running' = t
    /\ UNCHANGED << connected, process, master_fd, full_output, lock, waiters,
                    nextPty, openMasters, openSlaves, live, bannerDue, inq,
                    outq, sends, lastConnect >>
    /\ UNCHANGED sanVars

\* the command line, ended by a newline (lines 148-150), reaches the shell
\* of the pty; the line is named by its number among the dispatched ones
Dispatched(fd) ==
    /\ inq' = [inq EXCEPT ![fd] = IF fd \in live THEN Append(@, sends + 1)
                                                 ELSE @]
    /\ sends' = sends + 1

\* self.full_output = "" and the first os.write: it succeeds and
\* send_command returns; or it raises OSError and close() is called; or
\* self.master_fd is None, a TypeError nothing catches
SendWrite(t) ==
    /\ Top(t) = "send_write" /\ running = t
    /\ full_output' = << >>
    /\ IF master_fd = None
       THEN /\ task' = [task EXCEPT ![t] =
                   Raised([@ EXCEPT !.nwrites = @ + 1])]
            /\ running' = 0
            /\ UNCHANGED << inq, sends >>
       ELSE IF WriteOK(master_fd)
       THEN /\ Dispatched(master_fd)
            /\ task' = [task EXCEPT ![t] = Ret([@ EXCEPT !.nwrites = @ + 1])]
            /\ running' = AfterRet(t)
       ELSE /\ task' = [task EXCEPT ![t] =
                   [@ EXCEPT !.nwrites = @ + 1, !.nreconn = @ + 1,
                             !.stack = << "close_enter", "send_reconnect" >>]]
            /\ running' = t
            /\ UNCHANGED << inq, sends >>
    /\ UNCHANGED << connected, process, master_fd, lock, waiters, nextPty,
                    openMasters, openSlaves, live, bannerDue, outq, lastConnect >>
    /\ UNCHANGED sanVars

\* close() returned: await self.connect()
SendReconnect(t) ==
    /\ Top(t) = "send_reconnect" /\ running = t
    /\ task' = [task EXCEPT ![t].stack = << "connect_enter", "send_retry" >>]
    /\ UNCHANGED << connected, process, master_fd, full_output, lock, waiters,
                    nextPty, openMasters, openSlaves, live, bannerDue, inq,
                    outq, running, sends, lastConnect >>
    /\ UNCHANGED sanVars

\* a variant of the retry that handles its failure like the first one
RetryFailure_Again(tk) ==
    [tk EXCEPT !.nwrites = @ + 1, !.nreconn = @ + 1,
               !.stack = << "close_enter", "send_reconnect" >>]

\* the os.write of line 159 is outside any try: its failure leaves
\* send_command
RetryFailure(tk) == Raised([tk EXCEPT !.nwrites = @ + 1])

\* connect() returned: the second os.write, whose failure is raised
SendRetry(t) ==
    /\ Top(t) = "send_retry" /\ running = t
    /\ IF master_fd # None /\ WriteOK(master_fd)
       THEN /\ Dispatched(master_fd)
            /\ task' = [task EXCEPT ![t] = Ret([@ EXCEPT !.nwrites = @ + 1])]
            /\ running' = AfterRet(t)
       ELSE /\ task' = [task EXCEPT ![t] = RetryFailure(@)]
            /\ running' = IF task'[t].stack = << >> THEN 0 ELSE t
            /\ UNCHANGED << inq, sends >>
    /\ UNCHANGED << connected, process, master_fd, full_output, lock, waiters,
                    nextPty, openMasters, openSlaves, live, bannerDue, outq,
                    lastConnect >>
    /\ UNCHANGED sanVars

(***************************************************************************)
(* close()                                                                 *)
(***************************************************************************)
\* await session.close() by a caller
CallClose(t) ==
    /\ MayCall(t)
    /\ task' = [task EXCEPT ![t] = Call(t, "close", << "close_enter" >>)]
    /\ running' = t
    /\ UNCHANGED << connected, process, master_fd, full_output, lock, waiters,
                    nextPty, openMasters, openSlaves, live, bannerDue, inq,
                    outq, sends, lastConnect >>
    /\ UNCHANGED sanVars

\* a variant of the entry of close that does not take the lock
CloseLocks_Never == FALSE

\* close runs its body under self._lock
CloseLocks == TRUE

\* async with self._lock, in close: enter at once or queue and suspend
CloseEnter(t) ==
    /\ Top(t) = "close_enter" /\ running = t
    /\ IF ~CloseLocks
       THEN /\ task' = [task EXCEPT ![t] = Goto(@, "close_body")]
            /\ UNCHANGED << lock, waiters, running >>
       ELSE IF LockFree
       THEN /\ lock' = t
            /\ task' = [task EXCEPT ![t] = Goto(@, "close_body")]
            /\ UNCHANGED << waiters, running >>
       ELSE /\ waiters' = Append(waiters, t)
            /\ task' = [task EXCEPT ![t] = Goto(@, "close_wait")]
            /\ running' = 0
            /\ UNCHANGED lock
    /\ UNCHANGED << connected, process, master_fd, full_output, nextPty,
                    openMasters, openSlaves, live, bannerDue, inq, outq,
                    sends, lastConnect >>
    /\ UNCHANGED sanVars

\* the task record with a step of close noted
Step(tk, s) == [tk EXCEPT !.steps = Append(@, s)]

\* a variant of close with one try around all its steps: a failed exit write
\* goes straight to the descriptor
AfterExitFailure_Skip == "close_fd"

\* the exit write has its own try: after its failure close goes on with the
\* termination signal
AfterExitFailure == "close_term"

\* if self.process: the graceful exit.  The write of "exit" is made when
\* self.master_fd is set; it succeeds and close sleeps 0.2, or it fails and
\* the sleep is skipped.  Without a process close goes to the descriptor.
CloseExit(t) ==
    /\ Top(t) = "close_body" /\ running = t
    /\ IF process = None
       THEN /\ task' = [task EXCEPT ![t] = Goto(@, "close_fd")]
            /\ running' = t
       ELSE IF master_fd = None
       THEN /\ task' = [task EXCEPT ![t] = Goto(Step(@, "exit_skipped"),
                                                "close_term")]
            /\ running' = 0
       ELSE IF WriteOK(master_fd)
       THEN /\ task' = [task EXCEPT ![t] = Goto(Step(@, "exit"),
                                                "close_term")]
            /\ running' = 0
       ELSE /\ task' = [task EXCEPT ![t] = Goto(Step(@, "exit_failed"),
                                                AfterExitFailure)]
            /\ running' = t
    /\ UNCHANGED << connected, process, master_fd, full_output, lock, waiters,
                    nextPty, openMasters, openSlaves, live, bannerDue, inq,
                    outq, sends, lastConnect >>
    /\ UNCHANGED sanVars

\* a shell that stops: commands it has not run are lost
Stopped(c) ==
    /\ live' = live \ {c}
    /\ bannerDue' = bannerDue \ {c}
    /\ inq' = [inq EXCEPT ![c] = << >>]

\* os.killpg(getpgid(pid), SIGTERM): delivered, and the shell stops or
\* ignores it, then close sleeps 0.1; or the call fails, which only a shell
\* that is gone allows, and the sleep is skipped
CloseTerm(t) ==
    /\ Top(t) = "close_term" /\ running \in {0, t}
    /\ \E ok \in BOOLEAN, stops \in BOOLEAN :
        /\ process \in live => ok
        /\ stops => (ok /\ process \in live)
        /\ IF stops THEN Stopped(process)
                    ELSE UNCHANGED << live, bannerDue, inq >>
        /\ task' = [task EXCEPT ![t] =
               Goto(Step(@, IF ok THEN "term" ELSE "term_failed"),
                    "close_kill")]
        /\ running' = IF ok THEN 0 ELSE t
    /\ UNCHANGED << connected, process, master_fd, full_output, lock, waiters,
                    nextPty, openMasters, openSlaves, outq, sends,
                    lastConnect >>
    /\ UNCHANGED sanVars

\* a variant of close that keeps the process handle
ProcessAfterKill_Kept(p) == p

\* self.process = None
ProcessAfterKill(p) == None

\* os.killpg(getpgid(pid), SIGKILL), delivered or failed, and
\* self.process = None
CloseKill(t) ==
    /\ Top(t) = "close_kill" /\ running \in {0, t}
    /\ \E ok \in BOOLEAN :
        /\ process \in live => ok
        /\ task' = [task EXCEPT ![t] =
               Goto(Step(@, IF ok THEN "kill" ELSE "kill_failed"),
                    "close_fd")]
    /\ IF process \in live THEN Stopped(process)
                           ELSE UNCHANGED << live, bannerDue, inq >>
    /\ process' = ProcessAfterKill(process)
    /\ running' = t
    /\ UNCHANGED << connected, master_fd, full_output, lock, waiters,
                    nextPty, openMasters, openSlaves, outq, sends,
                    lastConnect >>
    /\ UNCHANGED sanVars

\* the record of another task when a close returns: a call in progress has
\* seen a close complete
SeenClose(tk) == IF tk.stack # << >> THEN [tk EXCEPT !.closed = TRUE] ELSE tk

\* a variant of the end of close that leaves the descriptor field set
MasterAfterClose_Kept(fd) == fd

\* self.master_fd = None
MasterAfterClose(fd) == None

\* if self.master_fd is not None: os.close, whose failure is swallowed (the
\* descriptor is released either way); then self._connected = False,
\* self.full_output = "", the lock's block is left and close returns
CloseFd(t) ==
    /\ Top(t) = "close_fd" /\ running = t
    /\ IF master_fd # None
       THEN /\ \E ok \in BOOLEAN :
                task' = [u \in Tasks |->
                    IF u = t
                    THEN Ret(Step(Step(task[t],
                                       IF ok THEN "fd" ELSE "fd_failed"),
                                  "reset"))
                    ELSE SeenClose(task[u])]
            /\ openMasters' = openMasters \ {master_fd}
            /\ outq' = [outq EXCEPT ![master_fd] = << >>]
            /\ master_fd' = MasterAfterClose(master_fd)
       ELSE /\ task' = [u \in Tasks |->
                    IF u = t THEN Ret(Step(task[t], "reset"))
                             ELSE SeenClose(task[u])]
            /\ UNCHANGED << openMasters, outq, master_fd >>
    /\ connected' = FALSE
    /\ full_output' = << >>
    /\ lock' = IF lock = t THEN 0 ELSE lock
    /\ running' = AfterRet(t)
    /\ UNCHANGED << process, waiters, nextPty, openSlaves, live, bannerDue,
                    inq, sends, lastConnect >>
    /\ UNCHANGED sanVars

(***************************************************************************)
(* The environment: the shells.                                            *)
(***************************************************************************)
\* a shell prints its startup text
ChildBanner(c) ==
    /\ c \in live /\ c \in bannerDue
    /\ bannerDue' = bannerDue \ {c}
    /\ outq' = [outq EXCEPT ![c] = @ \o Banner]
    /\ UNCHANGED << connected, process, master_fd, full_output, lock, waiters,
                    nextPty, openMasters, openSlaves, live, inq, task,
                    running, sends, lastConnect >>
    /\ UNCHANGED sanVars

\* a shell runs the next command line it was sent and prints its output
ChildRun(c) ==
    /\ c \in live /\ inq[c] # << >>
    /\ outq' = [outq EXCEPT ![c] = @ \o CmdOutput(Head(inq[c]))]
    /\ inq' = [inq EXCEPT ![c] = Tail(@)]
    /\ UNCHANGED << connected, process, master_fd, full_output, lock, waiters,
                    nextPty, openMasters, openSlaves, live, bannerDue, task,
                    running, sends, lastConnect >>
    /\ UNCHANGED sanVars

\* a shell exits on its own (it ran "exit", or it crashed)
ChildExit(c) ==
    /\ c \in live
    /\ Stopped(c)
    /\ UNCHANGED << connected, process, master_fd, full_output, lock, waiters,
                    nextPty, openMasters, openSlaves, outq, task, running,
                    sends, lastConnect >>
    /\ UNCHANGED sanVars

(***************************************************************************)
(* The session's specification.                                            *)
(***************************************************************************)
\* sequential use: one caller, each call awaited before the next
Next ==
    \/ \E t \in SeqTasks : CallConnect(t)
    \/ \E t \in SeqTasks : ConnectEnter(t)
    \/ \E t \in SeqTasks : ConnectNoop(t)
    \/ \E t \in SeqTasks : ConnectSpawn(t)
    \/ \E t \in SeqTasks : \E why \in {"openpty", "makedirs", "popen"} :
           ConnectFail(t, why)
    \/ \E t \in SeqTasks : ConnectDrain(t)
    \/ \E t \in SeqTasks : ConnectFinish(t)
    \/ \E t \in SeqTasks : \E reset \in BOOLEAN : CallRead(t, reset)
    \/ \E t \in SeqTasks : ReadData(t)
    \/ \E t \in SeqTasks : ReadIdle(t)
    \/ \E t \in SeqTasks : ReadReturn(t)
    \/ \E t \in SeqTasks : CallSend(t)
    \/ \E t \in SeqTasks : SendWrite(t)
    \/ \E t \in SeqTasks : SendReconnect(t)
    \/ \E t \in SeqTasks : SendRetry(t)
    \/ \E t \in SeqTasks : CallClose(t)
    \/ \E t \in SeqTasks : CloseEnter(t)
    \/ \E t \in SeqTasks : CloseExit(t)
    \/ \E t \in SeqTasks : CloseTerm(t)
    \/ \E t \in SeqTasks : CloseKill(t)
    \/ \E t \in SeqTasks : CloseFd(t)
    \/ \E c \in Ptys : ChildBanner(c)
    \/ \E c \in Ptys : ChildRun(c)
    \/ \E c \in Ptys : ChildExit(c)

Spec == Init /\ [][Next]_vars

(***************************************************************************)
(* The sanitizer's specification: _clean_output applied to every text over *)
(* Alphabet of length at most MaxLen.                                      *)
(***************************************************************************)
SanInit ==
    /\ SessionInit
    /\ raw \in Texts(MaxLen)
    /\ cleaned = << >>
    /\ sanDone = FALSE
    /\ cut = 0
    /\ chunked = << >>

\* cleaned = self._clean_output(raw)
Sanitize ==
    /\ ~sanDone
    /\ cleaned' = clean_output(raw)
    /\ sanDone' = TRUE
    /\ UNCHANGED << raw, cut, chunked, sessVars >>

\* raw arrives in two chunks, the first of k characters: read_output
\* sanitizes each chunk it reads and appends it to the text it accumulates
SanitizeChunks(k) ==
    /\ cut = 0
    /\ k \in 1..(Len(raw) - 1)
    /\ cut' = k
    /\ chunked' = Accumulate(
                      Accumulate(<< >>, clean_output(SubSeq(raw, 1, k))),
                      clean_output(SubSeq(raw, k + 1, Len(raw))))
    /\ UNCHANGED << raw, cleaned, sanDone, sessVars >>

SanNext ==
    \/ Sanitize
    \/ \E k \in 1..MaxLen : SanitizeChunks(k)

SanSpec == SanInit /\ [][SanNext]_vars

(***************************************************************************)
(* Concurrent use: every task calls an operation, and the operations are   *)
(* interleaved at the suspension points.                                   *)
(***************************************************************************)
\* a task that has made no call yet, the tasks making their calls in the
\* order of their numbers (the tasks are alike)
FirstCall(t) ==
    /\ task[t].op = "none"
    /\ \A u \in Tasks : u < t => task[u].op # "none"

\* each task makes one call: the operations of the tasks overlap in every
\* way the suspension points allow
ConcNext ==
    \/ \E t \in Tasks : FirstCall(t) /\ CallConnect(t)
    \/ \E t \in Tasks : ConnectEnter(t)
    \/ \E t \in Tasks : LockGranted(t)
    \/ \E t \in Tasks : ConnectNoop(t)
    \/ \E t \in Tasks : ConnectSpawn(t)
    \/ \E t \in Tasks : \E why \in {"openpty", "makedirs", "popen"} :
           ConnectFail(t, why)
    \/ \E t \in Tasks : ConnectDrain(t)
    \/ \E t \in Tasks : ConnectFinish(t)
    \/ \E t \in Tasks : \E reset \in BOOLEAN : FirstCall(t) /\ CallRead(t, reset)
    \/ \E t \in Tasks : ReadData(t)
    \/ \E t \in Tasks : ReadIdle(t)
    \/ \E t \in Tasks : ReadReturn(t)
    \/ \E t \in Tasks : FirstCall(t) /\ CallSend(t)
    \/ \E t \in Tasks : SendWrite(t)
    \/ \E t \in Tasks : SendReconnect(t)
    \/ \E t \in Tasks : SendRetry(t)
    \/ \E t \in Tasks : FirstCall(t) /\ CallClose(t)
    \/ \E t \in Tasks : CloseEnter(t)
    \/ \E t \in Tasks : CloseExit(t)
    \/ \E t \in Tasks : CloseTerm(t)
    \/ \E t \in Tasks : CloseKill(t)
    \/ \E t \in Tasks : CloseFd(t)
    \/ \E c \in Ptys : ChildBanner(c)
    \/ \E c \in Ptys : ChildRun(c)
    \/ \E c \in Ptys : ChildExit(c)

\* the session as connect leaves it once its shell is up: connected to the
\* shell of the first pty, whose startup text is read or still due
ConnectedInit ==
    /\ connected = TRUE
    /\ process = 1
    /\ master_fd = 1
    /\ full_output = << >>
    /\ lock = 0
    /\ waiters = << >>
    /\ nextPty = 2
    /\ openMasters = {1}
    /\ openSlaves = {}
    /\ live = {1}
    /\ bannerDue \in {{}, {1}}
    /\ inq = [p \in Ptys |-> << >>]
    /\ outq = [p \in Ptys |-> << >>]
    /\ task = [t \in Tasks |-> IdleTask]
    /\ running = 0
    /\ sends = 0
    /\ lastConnect = "ok"

\* concurrent use starts on a new session or on a connected one
ConcInit ==
    /\ SessionInit \/ ConnectedInit
    /\ raw = << >>
    /\ cleaned = << >>
    /\ sanDone = FALSE
    /\ cut = 0
    /\ chunked = << >>

ConcSpec == ConcInit /\ [][ConcNext]_vars

\* the steps by which task t goes on with the operation it is in: every
\* step of the operations but the calls themselves
Continue(t) ==
    \/ ConnectEnter(t)
    \/ LockGranted(t)
    \/ ConnectNoop(t)
    \/ ConnectSpawn(t)
    \/ \E why \in {"openpty", "makedirs", "popen"} : ConnectFail(t, why)
    \/ ConnectDrain(t)
    \/ ConnectFinish(t)
    \/ ReadData(t)
    \/ ReadIdle(t)
    \/ ReadReturn(t)
    \/ SendWrite(t)
    \/ SendReconnect(t)
    \/ SendRetry(t)
    \/ CloseEnter(t)
    \/ CloseExit(t)
    \/ CloseTerm(t)
    \/ CloseKill(t)
    \/ CloseFd(t)

\* the overlapping calls while time advances and the event loop runs every
\* task that is ready: a task that can go on does go on.  Nothing is
\* assumed of the callers (they may never call) or of the shells (they may
\* stay silent).
FairSpec ==
    ConcInit /\ [][ConcNext]_vars /\ \A t \in Tasks : WF_vars(Continue(t))


(***************************************************************************)
(* Statements about the session.                                           *)
(***************************************************************************)
\* text holds a character printed by one of the commands of ks
HasOutputOf(text, ks) ==
    \E i \in 1..Len(text) : \E k \in ks : text[i] = CmdLetter(k)

\* C1 (as claimed): a read_output called with reset requested after the
\* dispatch of a command returns, in its full and in its partial text,
\* nothing printed by a command dispatched before that one.
C1_Isolation ==
    \A t \in Tasks :
        (/\ task[t].op = "read" /\ task[t].result = "ok"
         /\ task[t].reset /\ task[t].rsends >= 2)
        => /\ ~HasOutputOf(task[t].retfull, 1..(task[t].rsends - 1))
           /\ ~HasOutputOf(task[t].retpartial, 1..(task[t].rsends - 1))

\* a send_command that is over and whose first write failed on a broken
\* channel
SendRecovered(t) ==
    /\ task[t].op = "send" /\ task[t].stack = << >>
    /\ task[t].nreconn >= 1

\* C2 (as claimed): a send_command whose first write failed has made exactly
\* one close-then-connect and exactly two write attempts when it is over.
C2_RetriesExactlyOnce ==
    \A t \in Tasks :
        SendRecovered(t) => (task[t].nreconn = 1 /\ task[t].nwrites = 2)

\* C2 (amended): no send_command makes more than one close-then-connect or
\* more than two write attempts; one whose first write failed makes exactly
\* one close-then-connect, and then either retries the write once (returning
\* normally if the retry succeeds, raising if it fails) or, when that
\* connect fails, raises the connect's failure without a second write.
C2_AtMostOneRetry ==
    \A t \in Tasks :
        /\ task[t].nreconn <= 1 /\ task[t].nwrites <= 2
        /\ task[t].nwrites = 2 => task[t].nreconn = 1
        /\ SendRecovered(t) =>
              /\ task[t].result = "ok" => task[t].nwrites = 2
              /\ task[t].nwrites = 1 =>
                    (task[t].result = "raised" /\ lastConnect = "failed")

\* C2 witness: a send_command returned normally after its first write
\* failed, one reconnect and a second write
C2_Witness ==
    \E t \in Tasks :
        /\ SendRecovered(t) /\ task[t].result = "ok"
        /\ task[t].nreconn = 1 /\ task[t].nwrites = 2

\* C3: while a connect() called on a connected session runs, the process
\* handle and the master descriptor stay what they were, no pty pair is
\* allocated and no shell spawned, and the call does not raise.
C3_ConnectIdempotent ==
    [][\A t \in Tasks :
          (task[t].op = "connect" /\ task[t].conn0 /\ task[t].stack # << >>)
          => /\ process' = process
             /\ master_fd' = master_fd
             /\ nextPty' = nextPty
             /\ openMasters' = openMasters
             /\ live' \subseteq live
             /\ connected'
             /\ task'[t].result # "raised"]_vars

\* C3 witness: a connect() on a connected session has returned
C3_Witness ==
    \E t \in Tasks :
        /\ task[t].op = "connect" /\ task[t].conn0
        /\ task[t].stack = << >> /\ task[t].result = "ok"
        /\ connected /\ process # None /\ master_fd = process

\* the session is torn down: disconnected, no process handle, no master
\* descriptor, empty full buffer
TornDown ==
    /\ ~connected
    /\ process = None
    /\ master_fd = None
    /\ full_output = << >>

\* C4: close() never raises; once it has returned the session is torn down;
\* and a close() called on a torn-down session changes nothing.
C4_CloseIdempotent ==
    /\ [](\A t \in Tasks :
             task[t].op = "close" =>
                 /\ task[t].result # "raised"
                 /\ task[t].stack = << >> => TornDown)
    /\ [][\A t \in Tasks :
             (task[t].op = "close" /\ task[t].stack # << >> /\ TornDown)
             => UNCHANGED << connected, process, master_fd, full_output,
                             openMasters, openSlaves, live, nextPty >>]_vars

\* C4 witness: a close() has returned although one of its steps failed
C4_Witness ==
    \E t \in Tasks :
        /\ task[t].op = "close" /\ task[t].stack = << >>
        /\ task[t].result = "ok"
        /\ \E i \in 1..Len(task[t].steps) :
              task[t].steps[i] \in {"exit_failed", "term_failed",
                                    "kill_failed", "fd_failed"}

\* C5 (as claimed): whenever no task is in the middle of a step, the master
\* descriptor is set and open if and only if the session is connected.
C5_MasterValidIffConnected ==
    running = 0 =>
        ((master_fd # None /\ master_fd \in openMasters) <=> connected)

\* C6 (as claimed): at most one shell is alive and at most one pty pair has
\* a descriptor open in this process.
C6_AtMostOneChildAndPair ==
    /\ Cardinality(live) <= 1
    /\ Cardinality(openMasters \cup openSlaves) <= 1

\* the frames of the bodies of connect and close, under the lock
BodyFrames ==
    {"connect_body", "connect_sleep", "connect_finish",
     "close_body", "close_term", "close_kill", "close_fd"}

\* task t is inside the body of connect or close
InBody(t) ==
    \E i \in 1..Len(task[t].stack) : task[t].stack[i] \in BodyFrames

\* C7: at most one task is inside the body of connect or close, and it
\* holds the lock; a pty pair is allocated (a shell spawned) only by the
\* task holding the lock, on a disconnected session, so that concurrent
\* connects on a disconnected session spawn one shell.
C7_ConnectCloseExclusive ==
    /\ [](\A t, u \in Tasks :
             /\ InBody(t) => lock = t
             /\ (InBody(t) /\ InBody(u)) => t = u)
    /\ [][nextPty' # nextPty =>
             /\ ~connected
             /\ lock # 0 /\ InBody(lock)
             /\ Cardinality(live') <= 1]_vars

\* C7 witness: a task is suspended inside the body of connect or close
\* while another is queued for the lock
C7_Witness ==
    \E t, u \in Tasks :
        /\ t # u
        /\ InBody(t) /\ lock = t
        /\ Top(u) \in {"connect_wait", "close_wait"}

\* C8: a connect that raised leaves the session disconnected and the lock
\* free; and the connect attempt that follows a failed one does not take
\* the early return: it allocates a pty pair or raises.
C8_FailedConnectReusable ==
    /\ [](\A t \in Tasks :
             (task[t].op = "connect" /\ task[t].result = "raised")
             => (~connected /\ lock = 0))
    /\ [][\A t \in Tasks :
             (Top(t) = "connect_body" /\ lastConnect = "failed"
              /\ task'[t] # task[t])
             => (nextPty' = nextPty + 1 \/ task'[t].result = "raised")]_vars

\* C8 witness: a connect has returned normally, connected, after the
\* attempt before it failed
C8_Witness ==
    \E t \in Tasks :
        /\ task[t].op = "connect" /\ task[t].result = "ok"
        /\ lastConnect = "ok_after_fail"
        /\ connected /\ lock = 0

\* C9: once send_command has raised, the full buffer is empty.
C9_RaisedSendLeavesBufferEmpty ==
    \A t \in Tasks :
        (task[t].op = "send" /\ task[t].result = "raised")
        => full_output = << >>

\* C9 witness: send_command raised on the failure of its second write
C9_Witness ==
    \E t \in Tasks :
        /\ task[t].op = "send" /\ task[t].result = "raised"
        /\ task[t].nwrites = 2

(***************************************************************************)
(* Statements about the sanitizer.                                         *)
(***************************************************************************)
\* C10 (as claimed): in the sanitizer's output no carriage return is left,
\* and beside the linefeeds of the text (one for each pair) there is one
\* linefeed for every bare carriage return.
C10_BareCRBecomesLF ==
    sanDone =>
        /\ Count(cleaned, CR) = 0
        /\ Count(cleaned, LF) =
              Count(AnsiSub(raw), LF) + BareCRs(AnsiSub(raw))

\* C10 (amended): every carriage-return+linefeed pair becomes a single
\* linefeed and every bare carriage return is removed: the output holds no
\* carriage return and exactly the linefeeds of the input.
C10_CRsRemoved ==
    sanDone =>
        /\ Count(cleaned, CR) = 0
        /\ Count(cleaned, LF) = Count(raw, LF)

\* C10 witness: a text with a pair and a bare carriage return was sanitized
C10_Witness ==
    /\ sanDone
    /\ CRLFPairs(raw) > 0
    /\ BareCRs(raw) > 0


\* C11: the sanitizer returns a text for every input, and sanitizing its
\* output again returns that output unchanged.
C11_SanitizeIdempotent ==
    sanDone =>
        /\ cleaned \in Seq(0..127)
        /\ Len(cleaned) <= Len(raw)
        /\ clean_output(cleaned) = cleaned

\* C11 witness: a text holding an escape character was sanitized to a text
\* that is neither the input nor empty
C11_Witness ==
    /\ sanDone
    /\ Count(raw, ESC) > 0
    /\ cleaned # raw
    /\ cleaned # << >>


(***************************************************************************)
(* Further statements about the session.                                   *)
(***************************************************************************)
\* C12: a send_command called on a disconnected session writes its command
\* only once a connect of this call has completed (connected, lock
\* released, no frame of connect left), to the master of the shell spawned
\* during the call; when it has returned normally the session is connected
\* and the full buffer is empty.
C12_LazyConnect ==
    /\ [](\A t \in Tasks :
             (task[t].op = "send" /\ ~task[t].conn0 /\ task[t].result = "ok")
             => (connected /\ full_output = << >>))
    /\ [][\A t \in Tasks :
             (/\ task[t].op = "send" /\ ~task[t].conn0
              /\ task[t].stack # << >> /\ sends' = sends + 1)
             => /\ connected /\ lock = 0
                /\ Top(t) \in {"send_write", "send_retry"}
                /\ lastConnect \in {"ok", "ok_after_fail"}
                /\ master_fd # None /\ master_fd = process
                /\ master_fd >= task[t].pty0
                /\ master_fd \in live
                /\ inq'[master_fd] = Append(inq[master_fd], sends')
                /\ full_output' = << >>]_vars

\* C12 witness: a send_command called on a disconnected session has returned
\* normally and its command is with the shell it spawned
C12_Witness ==
    \E t \in Tasks :
        /\ task[t].op = "send" /\ ~task[t].conn0 /\ task[t].result = "ok"
        /\ connected /\ master_fd \in live
        /\ master_fd >= task[t].pty0
        /\ inq[master_fd] # << >>


\* C13: a turn of read_output's loop that finds nothing to read, before the
\* deadline, stays in the loop and leaves the full buffer alone; and a
\* read_output that returns without a read error returns at the deadline,
\* after all the poll slices of its timeout; if it read nothing its partial
\* text is empty and the full buffer is the one it started from.
C13_PollsUntilDeadline ==
    [][\A t \in Tasks :
          (/\ Top(t) = "read_loop" /\ task'[t] # task[t]
           /\ ~Readable /\ ~ReadError)
          => IF task[t].left > 0
             THEN /\ task'[t].stack = task[t].stack
                  /\ task'[t].idle = task[t].idle + 1
                  /\ task'[t].partial = task[t].partial
                  /\ full_output' = full_output
             ELSE /\ task'[t].stack = Tail(task[t].stack)
                  /\ task[t].idle = Slices
                  /\ task'[t].result # "raised"
                  /\ task[t].rawread = << >> =>
                        /\ task[t].partial = << >>
                        /\ full_output' = task[t].full0]_vars

\* C13 witness: a read_output without reset on a connected session whose
\* shell runs has returned after all its poll slices, having read nothing,
\* with the buffer it started from
C13_Witness ==
    \E t \in Tasks :
        /\ task[t].op = "read" /\ task[t].result = "ok" /\ ~task[t].reset
        /\ task[t].rawread = << >> /\ task[t].idle = Slices
        /\ task[t].retpartial = << >>
        /\ task[t].full0 # << >> /\ task[t].retfull = task[t].full0
        /\ connected /\ master_fd \in live


\* C14: no operation blocks for ever.  While tasks are scheduled fairly
\* every operation a task is in returns or raises; the lock is held only by
\* a task inside the locked part of connect or close, so it is released on
\* every way out, an exception inside connect included; and a task never
\* asks for the lock while it holds it.
C14_NoOperationBlocks ==
    /\ [](\A t \in Tasks :
             /\ lock = t => InBody(t)
             /\ task[t].stack = << >> => lock # t
             /\ Top(t) \in {"connect_enter", "connect_wait",
                            "close_enter", "close_wait"} => lock # t
             /\ (\E i \in 1..Len(waiters) : waiters[i] = t)
                    => (lock # t /\ Top(t) \in {"connect_wait", "close_wait"}))
    /\ \A t \in Tasks : (task[t].stack # << >>) ~> (task[t].stack = << >>)

\* C14 witness: a connect has raised inside its locked part while another
\* task waits for the lock, and the lock is free for the waiter
C14_Witness ==
    \E t \in Tasks : \E u \in Tasks \ {t} :
        /\ task[t].op = "connect" /\ task[t].result = "raised"
        /\ task[t].stack = << >>
        /\ lastConnect = "failed"
        /\ lock = 0 /\ waiters = << u >>
        /\ Top(u) \in {"connect_wait", "close_wait"}


\* the outcomes that the i-th step of a close on a session with a child
\* may note: the exit write, the termination signal, the kill signal, the
\* closing of the master descriptor, the reset of the state
CloseStepOutcomes(i) ==
    CASE i = 1 -> {"exit", "exit_failed"}
      [] i = 2 -> {"term", "term_failed"}
      [] i = 3 -> {"kill", "kill_failed"}
      [] i = 4 -> {"fd", "fd_failed"}
      [] OTHER -> {"reset"}

\* C15: close on a session that has a child goes through the exit write,
\* the termination signal, the kill signal, the closing of the master
\* descriptor and the reset, in this order, whatever step fails: the steps
\* made so far are always the first ones of that list, after the third the
\* child is gone, after the fourth its master descriptor is closed, and
\* the close that has returned has made all five and left the session
\* disconnected with an empty buffer.
C15_CloseEscalates ==
    \A t \in Tasks :
        (task[t].op = "close" /\ task[t].proc0 # None) =>
            LET st == task[t].steps
            IN  /\ Len(st) <= 5
                /\ \A i \in 1..Len(st) : st[i] \in CloseStepOutcomes(i)
                /\ Len(st) >= 3 => (task[t].proc0 \notin live /\ process = None)
                /\ Len(st) >= 4 => (task[t].proc0 \notin openMasters
                                    /\ master_fd = None)
                /\ Len(st) = 5 => (~connected /\ full_output = << >>)
                /\ task[t].result # "raised"
                /\ task[t].result = "ok" => Len(st) = 5

\* C15 witness: a close on a session with a child has returned after its
\* exit write and its termination signal both failed
C15_Witness ==
    \E t \in Tasks :
        /\ task[t].op = "close" /\ task[t].proc0 # None
        /\ task[t].result = "ok"
        /\ Len(task[t].steps) = 5
        /\ task[t].steps[1] = "exit_failed"
        /\ task[t].steps[2] = "term_failed"
        /\ task[t].steps[3] \in {"kill", "kill_failed"}


\* text holds a character of the startup text of a shell
HasBanner(text) == \E i \in 1..Len(text) : text[i] = Banner[1]

\* C16: no read_output returns, in its full or in its partial text, the
\* startup text of a shell that connect has spawned.
C16_BannerNeverReturned ==
    \A t \in Tasks :
        (task[t].op = "read" /\ task[t].result = "ok") =>
            /\ ~HasBanner(task[t].retfull)
            /\ ~HasBanner(task[t].retpartial)


\* C17: in sequential use read_output starts from the full buffer it finds,
\* or from the empty text when reset is requested; every chunk it reads is
\* sanitized and appended to the partial text and to the full buffer, and
\* no other step of the call touches them; so the buffer at entry stays a
\* prefix of the buffer, and read_output returns as full the buffer at
\* entry followed by partial, which is also the buffer left in the session.
C17_ReadAccumulates ==
    /\ [](\A t \in Tasks :
             task[t].op = "read" =>
                 /\ task[t].stack # << >> =>
                        full_output = task[t].full0 \o task[t].partial
                 /\ task[t].result = "ok" =>
                        /\ task[t].retfull = task[t].full0 \o task[t].retpartial
                        /\ full_output = task[t].retfull)
    /\ [][\A t \in Tasks :
             /\ (task[t].stack = << >> /\ task'[t].stack # << >>
                 /\ task'[t].op = "read")
                => /\ task'[t].full0 = IF task'[t].reset THEN << >>
                                                          ELSE full_output
                   /\ full_output' = task'[t].full0
                   /\ task'[t].partial = << >>
             /\ (task[t].op = "read" /\ Top(t) = "read_loop"
                 /\ task'[t].stack # << >>)
                => IF task'[t].rawread # task[t].rawread
                   THEN LET chunk == outq[master_fd]
                        IN  /\ task'[t].rawread = task[t].rawread \o chunk
                            /\ task'[t].partial =
                                   task[t].partial \o clean_output(chunk)
                            /\ full_output' =
                                   full_output \o clean_output(chunk)
                   ELSE /\ task'[t].partial = task[t].partial
                        /\ full_output' = full_output
             /\ (task[t].op = "read" /\ Top(t) = "read_loop"
                 /\ task'[t].stack = << >>)
                => /\ task'[t].retpartial = task[t].partial
                   /\ task'[t].retfull = full_output
                   /\ full_output' = full_output]_vars

\* C17 witness: a read_output without reset that started from a buffer
\* with text has returned with text it read
C17_Witness ==
    \E t \in Tasks :
        /\ task[t].op = "read" /\ task[t].result = "ok" /\ ~task[t].reset
        /\ task[t].full0 # << >>
        /\ task[t].retpartial # << >>
        /\ task[t].rawread # task[t].retpartial


\* C18: whenever the event loop runs no task, which is at every suspension
\* point and at every return or raise of an operation, the process handle
\* is set exactly when the session is connected.
C18_ProcessIffConnected ==
    running = 0 => (process # None <=> connected)

\* C18 witness: a connect that called Popen has raised, the slave it had
\* opened still open, and no task runs
C18_Witness ==
    /\ running = 0
    /\ lastConnect = "failed"
    /\ openSlaves # {}
    /\ \E t \in Tasks : task[t].result = "raised" /\ task[t].stack = << >>
    /\ process = None /\ ~connected


\* C19: the text read_output accumulates from raw text that arrives in two
\* chunks is the sanitized raw text, wherever the chunks are split.
C19_ChunkingInvisible ==
    (sanDone /\ cut # 0) => chunked = cleaned


\* C20: with the operations of several tasks interleaved, the descriptor
\* the session holds is never one that close has closed; a read_output in
\* progress when a close of another task returns ends at its next poll,
\* without raising; and a read_output called on a disconnected session
\* returns at its first poll with an empty partial text.
C20_ClosedDescriptorNeverUsed ==
    /\ [](master_fd # None => master_fd \in openMasters)
    /\ [](\A t \in Tasks :
             task[t].op = "read" =>
                 /\ task[t].result # "raised"
                 /\ (~task[t].conn0 /\ task[t].result = "ok") =>
                        (task[t].idle = 0 /\ task[t].retpartial = << >>))
    /\ [][\A t \in Tasks :
             (/\ task[t].op = "read" /\ Top(t) = "read_loop"
              /\ task[t].closed /\ task'[t] # task[t])
             => (task'[t].stack = << >> /\ task'[t].result = "ok")]_vars

====
